---- MODULE Spec2Model ----
(***************************************************************************)
(* Model of libadb/reader.c: the unified pull-based reader (dispatcher and *)
(* the ram, acpi, part and efivar adapters).                               *)
(*                                                                         *)
(* A UINT64, UINTN or EFI_PHYSICAL_ADDRESS is held exactly, as four 16-bit  *)
(* limbs, and a 32-bit field of the sparse headers as such a number below  *)
(* 2^32: sums, differences and products wrap where the machine's do.       *)
(* Buffer sizes a caller offers and the lengths a read returns are plain   *)
(* integers.                                                               *)
(***************************************************************************)
EXTENDS Integers, Sequences, FiniteSets, TLC

(***************************************************************************)
(* Program constants                                                       *)
(***************************************************************************)
MAX_MEMORY_REGION_NB == 256
EFI_PAGE_SIZE == 4096
SizeofSparseHeader == 28
SizeofChunkHeader == 12
\* bufsize = 64 in efivar_find
NameBufSize == 64
PART_READER_BUF_SIZE == 10485760
MAX_ARGS == 8
CHUNK_TYPE_RAW == 51905
CHUNK_TYPE_DONT_CARE == 51907
SPARSE_HEADER_MAGIC == "0xed26ff3a"

EFI_SUCCESS == "EFI_SUCCESS"
EFI_INVALID_PARAMETER == "EFI_INVALID_PARAMETER"
EFI_UNSUPPORTED == "EFI_UNSUPPORTED"
EFI_OUT_OF_RESOURCES == "EFI_OUT_OF_RESOURCES"
EFI_NOT_FOUND == "EFI_NOT_FOUND"
EFI_DEVICE_ERROR == "EFI_DEVICE_ERROR"

EFI_ERROR(ret) == ret # EFI_SUCCESS

EfiConventionalMemory == "EfiConventionalMemory"
EfiReservedMemoryType == "EfiReservedMemoryType"

(***************************************************************************)
(* Bounds of the model                                                     *)
(***************************************************************************)
\* number of reader contexts a caller owns
NCtx == 2
\* number of pool blocks AllocatePool can hand out
NBlocks == 2
\* highest page number a generated descriptor may start at
MaxStartPage == 3
\* most pages a generated descriptor may span
MaxPages == 2
\* highest page number a requested window start / length argument names
MaxArgPage == 5
\* reads that return data on one context between two opens
MaxReads == 6
\* calls of reader_open in one run
MaxOpens == 3

Ctxs == 1..NCtx
Blocks == 1..NBlocks

min(a, b) == IF a < b THEN a ELSE b

\* A 64-bit unsigned number: the limbs x[1] .. x[4] in base 2^16, the most
\* significant first.
Limb == 256 * 256
HalfLimb == Limb \div 2

\* The number n, 0 <= n < 2^31.
U(n) == <<0, 0, n \div Limb, n % Limb>>
Zero == U(0)
ULONG_MAX == <<Limb - 1, Limb - 1, Limb - 1, Limb - 1>>

\* The number x when it is below 2^31.
ToInt(x) == x[3] * Limb + x[4]

\* x + y modulo 2^64; c3, c2, c1 are the carries out of limbs 4, 3, 2.
UAddCarry(x, y, c3, c2, c1) ==
    <<(x[1] + y[1] + c1) % Limb, (x[2] + y[2] + c2) % Limb,
      (x[3] + y[3] + c3) % Limb, (x[4] + y[4]) % Limb>>
UCarry2(x, y, c3) == (x[3] + y[3] + c3) \div Limb
UCarry1(x, y, c2) == (x[2] + y[2] + c2) \div Limb
UAddFrom3(x, y, c3) ==
    UAddCarry(x, y, c3, UCarry2(x, y, c3), UCarry1(x, y, UCarry2(x, y, c3)))
UAdd(x, y) == UAddFrom3(x, y, (x[4] + y[4]) \div Limb)

\* 2^64 - x modulo 2^64, and x - y modulo 2^64.
UNeg(x) == UAdd(<<Limb - 1 - x[1], Limb - 1 - x[2], Limb - 1 - x[3], Limb - 1 - x[4]>>,
                U(1))
USub(x, y) == UAdd(x, UNeg(y))

\* The unsigned comparisons.
ULess(x, y) ==
    \E i \in 1..4 : x[i] < y[i] /\ \A j \in 1..(i - 1) : x[j] = y[j]
ULessEq(x, y) == ~ULess(y, x)

\* x * 16 modulo 2^64.
Nibble == Limb \div 16
UMul16(x) ==
    <<(x[1] % Nibble) * 16 + x[2] \div Nibble, (x[2] % Nibble) * 16 + x[3] \div Nibble,
      (x[3] % Nibble) * 16 + x[4] \div Nibble, (x[4] % Nibble) * 16>>

\* x * EFI_PAGE_SIZE modulo 2^64, x / EFI_PAGE_SIZE and x % EFI_PAGE_SIZE
\* (a limb holds 16 times EFI_PAGE_SIZE values).
UMulPage(x) ==
    <<(x[1] % 16) * EFI_PAGE_SIZE + x[2] \div 16, (x[2] % 16) * EFI_PAGE_SIZE + x[3] \div 16,
      (x[3] % 16) * EFI_PAGE_SIZE + x[4] \div 16, (x[4] % 16) * EFI_PAGE_SIZE>>
UDivPage(x) ==
    <<x[1] \div EFI_PAGE_SIZE, (x[1] % EFI_PAGE_SIZE) * 16 + x[2] \div EFI_PAGE_SIZE,
      (x[2] % EFI_PAGE_SIZE) * 16 + x[3] \div EFI_PAGE_SIZE,
      (x[3] % EFI_PAGE_SIZE) * 16 + x[4] \div EFI_PAGE_SIZE>>
UModPage(x) == x[4] % EFI_PAGE_SIZE

\* The low 32 bits: what a store into a 32-bit field, or a product of
\* 32-bit operands, keeps.
Trunc32(x) == <<0, 0, x[3], x[4]>>

\* min(x, a - b) for a buffer size x and UINTN operands a, b: the difference
\* is taken modulo 2^64.
MinOfWrappedSub(x, a, b) == IF ULess(USub(a, b), U(x)) THEN ToInt(USub(a, b)) ELSE x

(***************************************************************************)
(* Strings are sequences of one-character strings.                         *)
(***************************************************************************)
HexDigits == <<"0", "1", "2", "3", "4", "5", "6", "7", "8", "9", "a", "b", "c", "d", "e", "f">>
UpperHexDigits ==
    <<"0", "1", "2", "3", "4", "5", "6", "7", "8", "9", "A", "B", "C", "D", "E", "F">>

IsHexDigit(ch) == \E i \in 1..16 : HexDigits[i] = ch \/ UpperHexDigits[i] = ch

HexVal(ch) == (CHOOSE i \in 1..16 : HexDigits[i] = ch \/ UpperHexDigits[i] = ch) - 1

\* The value of the longest prefix of hex digits of s, added to acc * 16^n,
\* and the unparsed rest.  range: a digit came when acc was above
\* ULONG_MAX / 16; the value is then ULONG_MAX.
RECURSIVE strtoulFrom(_, _, _)
strtoulFrom(s, acc, range) ==
    IF s # << >> /\ IsHexDigit(Head(s))
    THEN IF range \/ acc[1] >= Nibble
         THEN strtoulFrom(Tail(s), acc, TRUE)
         ELSE strtoulFrom(Tail(s), UAdd(UMul16(acc), U(HexVal(Head(s)))), FALSE)
    ELSE [value |-> IF range THEN ULONG_MAX ELSE acc, endptr |-> s, range |-> range]

\* The vertical tab (character 11), which has no escape in a string.
VT == ""

\* The characters isspace accepts.
WhiteSpace == {" ", "\t", "\n", "\r", "\f", VT}

\* The leading white space strtoul skips.
RECURSIVE SkipBlanks(_)
SkipBlanks(s) ==
    IF s # << >> /\ Head(s) \in WhiteSpace THEN SkipBlanks(Tail(s)) ELSE s

\* An optional sign, "+" or "-".
SkipSign(s) == IF s # << >> /\ Head(s) \in {"+", "-"} THEN Tail(s) ELSE s

\* The text starts with a "-" sign.
IsNegative(s) == s # << >> /\ Head(s) = "-"

\* The optional prefix 0x or 0X of base 16, taken only before a hex digit.
SkipHexPrefix(s) ==
    IF /\ Len(s) >= 3
       /\ s[1] = "0"
       /\ s[2] \in {"x", "X"}
       /\ IsHexDigit(s[3])
    THEN SubSeq(s, 3, Len(s))
    ELSE s

\* The digits were read from text d: without any digit nothing is consumed
\* and endptr is the whole of s.
strtoulDigits(s, d, r) ==
    IF r.endptr = d THEN [value |-> Zero, endptr |-> s, range |-> FALSE] ELSE r

strtoulBody(s, d) == strtoulDigits(s, d, strtoulFrom(d, Zero, FALSE))

\* After a "-" sign a value in range is negated as an unsigned long:
\* 2^64 - value.
strtoulSigned(neg, r) == IF neg /\ ~r.range THEN [r EXCEPT !.value = UNeg(@)] ELSE r

\* strtoul(s, &endptr, 16): white space, an optional sign, an optional 0x,
\* then the longest run of hex digits of either case; value and the
\* unparsed rest.
strtoul(s) ==
    strtoulSigned(IsNegative(SkipBlanks(s)),
                  strtoulBody(s, SkipHexPrefix(SkipSign(SkipBlanks(s)))))

\* Hexadecimal text of a number, as a caller would write it.
RECURSIVE ToHex(_)
ToHex(n) ==
    IF n < 16 THEN <<HexDigits[n + 1]>>
    ELSE Append(ToHex(n \div 16), HexDigits[(n % 16) + 1])

\* strtok_r with READER_DELIMITER ":": the non-empty runs between colons.
RECURSIVE strtok_all(_, _, _)
strtok_all(s, tok, acc) ==
    IF s = << >>
    THEN IF tok = << >> THEN acc ELSE Append(acc, tok)
    ELSE IF Head(s) = ":"
         THEN strtok_all(Tail(s), << >>, IF tok = << >> THEN acc ELSE Append(acc, tok))
         ELSE strtok_all(Tail(s), Append(tok, Head(s)), acc)

RECURSIVE Join(_)
Join(toks) ==
    IF toks = << >> THEN << >>
    ELSE IF Len(toks) = 1 THEN toks[1]
    ELSE toks[1] \o <<":">> \o Join(Tail(toks))

(***************************************************************************)
(* State                                                                   *)
(***************************************************************************)
VARIABLES
    ctx,        \* ctx[c]: the caller's reader_ctx_t (reader, cur, len, private)
    ram_priv,   \* the static struct ram_priv
    pool,       \* pool[b]: TRUE while block b is allocated
    heap,       \* heap[b]: the struct part_priv stored in block b
    halted,     \* the firmware stopped: on a store or a read through a stale
                \* pointer, or in the sort of a memory map of no descriptor
    last,       \* the last call: operation, context, status, returned length
    stream,     \* stream[c]: history of the context (idle, open, closed, failed)
    nreads,     \* nreads[c]: reads that returned data since the last open of c
    nopens      \* calls of reader_open so far

vars == <<ctx, ram_priv, pool, heap, halted, last, stream, nreads, nopens>>

NullPtr == [k |-> "null", id |-> 0]
RamPrivPtr == [k |-> "static", id |-> 0]
PoolPtr(b) == [k |-> "pool", id |-> b]
TablePtr(t) == [k |-> "table", id |-> t]

ZeroSparseHeader ==
    [magic |-> "0", major_version |-> 0, minor_version |-> 0, file_hdr_sz |-> 0,
     chunk_hdr_sz |-> 0, blk_sz |-> 0, total_blks |-> Zero, total_chunks |-> 0]

\* memset(priv, 0, sizeof(*priv)); chunks holds the chunk_nb entries written.
ZeroRamPriv ==
    [is_in_used |-> FALSE, memmap |-> << >>, start |-> Zero, end |-> Zero,
     cur |-> Zero, cur_end |-> Zero, chunk_nb |-> 0, cur_chunk |-> 0,
     sheader |-> ZeroSparseHeader, chunks |-> << >>]

\* A pool block: kind names the object last stored in it ("part": a struct
\* part_priv, "var": the value of an EFI variable); size is the value's size.
ZeroBlock ==
    [kind |-> "none", part |-> 0, need_more_data |-> FALSE, buf_cur |-> 0,
     buf_len |-> 0, offset |-> 0, size |-> 0]

ZeroCtx == [reader |-> "NULL", cur |-> Zero, len |-> Zero, private |-> NullPtr]

(***************************************************************************)
(* RAM reader                                                              *)
(***************************************************************************)
\* lines 134-135: entry_len and entry_end
EntryLen(entry) == UMulPage(entry.NumberOfPages)
EntryEnd(entry) == UAdd(entry.PhysicalStart, EntryLen(entry))

\* lines 74-82: the body of the inner for loop at entries i, i + 1.
\* st: [entries, swapped, strayed]; strayed: the loop left the map.
BubbleStep(st, i) ==
    IF ULess(st.entries[i + 1].PhysicalStart, st.entries[i].PhysicalStart)
    THEN [st EXCEPT !.entries = [st.entries EXCEPT ![i] = st.entries[i + 1],
                                                   ![i + 1] = st.entries[i]],
                    !.swapped = TRUE]
    ELSE st

\* The inner for loop over i = lo..hi.  The span is visited by halves, the
\* first half evaluated before the second is entered (left is bound to its
\* value), so that the evaluation nests in the logarithm of the number of
\* entries.
RECURSIVE BubbleSpan(_, _, _)
BubbleSpan(st, lo, hi) ==
    IF lo > hi THEN st
    ELSE IF lo = hi THEN BubbleStep(st, lo)
    ELSE CHOOSE r \in {BubbleSpan(left, (lo + hi) \div 2 + 1, hi) :
                           left \in {BubbleSpan(st, lo, (lo + hi) \div 2)}} : TRUE

\* One pass of the inner for loop of the bubble sort (line 73), over
\* entries 1..n.  The bound nr_entries - 1 is a UINTN: with nr_entries = 0
\* it is 2^64 - 1, and the loop compares and swaps what lies behind the
\* map, behind the memmap buffer and behind ram_priv, until the firmware
\* stops on an access.  Such a pass has strayed; it does not end.
BubblePass(entries, n) ==
    IF n = 0 THEN [entries |-> entries, swapped |-> FALSE, strayed |-> TRUE]
    ELSE CHOOSE r \in {BubbleSpan(st, 1, n - 1) :
                           st \in {[entries |-> entries, swapped |-> FALSE,
                                    strayed |-> FALSE]}} : TRUE

\* lines 71-85: the do-while loop, which ends with the first pass that
\* swaps nothing, and never when a pass has strayed.
RECURSIVE BubbleLoop(_, _)
BubbleLoop(entries, n) ==
    LET pass == BubblePass(entries, n)
    IN  IF pass.strayed THEN pass
        ELSE IF pass.swapped THEN BubbleLoop(pass.entries, n - 1)
        ELSE pass

\* sort_memory_map(entries, nr_entries, entry_sz): entries is the map as
\* the call left it, strayed says that the call did not return.
sort_memory_map(entries) ==
    [entries |-> BubbleLoop(entries, Len(entries)).entries,
     strayed |-> BubbleLoop(entries, Len(entries)).strayed]

\* st: [priv, len] is the state ram_add_chunk updates; result adds ret.
\* size is a UINT64 and ctx->len a UINTN; chunk_sz, total_sz and total_blks
\* are 32-bit fields, which keep the low 32 bits of what is stored in them.
ChunkHeader(type, size) ==
    [chunk_type |-> type,
     chunk_sz |-> Trunc32(UDivPage(size)),
     total_sz |-> Trunc32(UAdd(U(SizeofChunkHeader),
                               IF type = CHUNK_TYPE_RAW THEN size ELSE Zero))]

\* lines 102-116: the chunk is written at chunks[chunk_nb]
ChunkAdded(st, type, size) ==
    [ret |-> EFI_SUCCESS,
     priv |-> [st.priv EXCEPT
                 !.chunks = Append(@, ChunkHeader(type, size)),
                 !.chunk_nb = @ + 1,
                 !.sheader.total_chunks = @ + 1,
                 !.sheader.total_blks =
                     Trunc32(UAdd(@, ChunkHeader(type, size).chunk_sz))],
     len |-> UAdd(UAdd(st.len, U(SizeofChunkHeader)),
                  IF type = CHUNK_TYPE_RAW THEN size ELSE Zero)]

\* ram_add_chunk without the test of chunk_nb against the capacity of the
\* array (lines 97-100).
ram_add_chunk_without_capacity_test(st, type, size) ==
    IF UModPage(size) # 0
    THEN [ret |-> EFI_INVALID_PARAMETER, priv |-> st.priv, len |-> st.len]
    ELSE ChunkAdded(st, type, size)

ram_add_chunk(st, type, size) ==
    IF UModPage(size) # 0
    THEN [ret |-> EFI_INVALID_PARAMETER, priv |-> st.priv, len |-> st.len]
    ELSE IF st.priv.chunk_nb = MAX_MEMORY_REGION_NB
    THEN [ret |-> EFI_OUT_OF_RESOURCES, priv |-> st.priv, len |-> st.len]
    ELSE ChunkAdded(st, type, size)

\* The state of the for loop of ram_build_chunks: st = [priv, len, prev_end].
\* When the loop has ended the result adds ret, whether the loop was left by
\* break (so that i # nr_entries) and whether the err label was taken;
\* next is 0.
WalkDone(st, broke, err, ret) ==
    [ret |-> ret, priv |-> st.priv, len |-> st.len, prev_end |-> st.prev_end,
     broke |-> broke, err |-> err, next |-> 0]

\* The loop stands before entry i (next = i) with more entries to visit.
WalkAt(st, i) ==
    [ret |-> EFI_SUCCESS, priv |-> st.priv, len |-> st.len, prev_end |-> st.prev_end,
     broke |-> FALSE, err |-> FALSE, next |-> i]

Added(st, r) == [st EXCEPT !.priv = r.priv, !.len = r.len]

\* lines 147-153: the length of the hole before entry, clipped to the window
HoleLength(priv, prev_end, entry) ==
    USub(USub(USub(entry.PhysicalStart, prev_end),
              IF ULess(prev_end, priv.start) /\ ULess(priv.start, entry.PhysicalStart)
              THEN USub(priv.start, prev_end) ELSE Zero),
         IF priv.end # Zero /\ ULess(priv.end, entry.PhysicalStart)
         THEN USub(entry.PhysicalStart, priv.end) ELSE Zero)

\* lines 163-168: the length of entry, clipped to the window
EntryLength(priv, entry) ==
    USub(USub(EntryLen(entry),
              IF ULess(entry.PhysicalStart, priv.start) /\ ULess(priv.start, EntryEnd(entry))
              THEN USub(priv.start, entry.PhysicalStart) ELSE Zero),
         IF priv.end # Zero /\ ULess(priv.end, EntryEnd(entry))
         THEN USub(EntryEnd(entry), priv.end) ELSE Zero)

EntryChunkType(entry) ==
    IF entry.Type = EfiConventionalMemory THEN CHUNK_TYPE_RAW ELSE CHUNK_TYPE_DONT_CARE

\* next: prev_end = entry_end, and the loop's i++
build_next(st, i) ==
    WalkAt([st EXCEPT !.prev_end = EntryEnd(st.priv.memmap[i])], i + 1)

\* lines 172-176, after ram_add_chunk returned r for the entry
build_region_added(st, i, r) ==
    IF EFI_ERROR(r.ret) THEN WalkDone(Added(st, r), FALSE, TRUE, r.ret)
    ELSE IF st.priv.end # Zero /\ ULessEq(st.priv.end, EntryEnd(st.priv.memmap[i]))
    THEN WalkDone(Added(st, r), TRUE, FALSE, EFI_SUCCESS)
    ELSE build_next(Added(st, r), i)

\* lines 163-171
build_region(st, i) ==
    build_region_added(st, i,
        ram_add_chunk(st, EntryChunkType(st.priv.memmap[i]),
                      EntryLength(st.priv, st.priv.memmap[i])))

\* lines 156-160, after ram_add_chunk returned r for the hole
build_hole_added(st, i, r) ==
    IF EFI_ERROR(r.ret) THEN WalkDone(Added(st, r), FALSE, TRUE, r.ret)
    ELSE IF st.priv.end # Zero /\ ULess(st.priv.end, st.priv.memmap[i].PhysicalStart)
    THEN WalkDone(Added(st, r), TRUE, FALSE, EFI_SUCCESS)
    ELSE build_region(Added(st, r), i)

\* lines 132-180: the body of the for loop at entry i
build_entry(st, i) ==
    IF ULessEq(EntryEnd(st.priv.memmap[i]), st.priv.start) THEN build_next(st, i)
    ELSE IF st.prev_end # st.priv.memmap[i].PhysicalStart
    THEN IF ULess(st.priv.memmap[i].PhysicalStart, st.prev_end)
         THEN WalkDone(st, FALSE, TRUE, EFI_SUCCESS)
         ELSE build_hole_added(st, i,
                  ram_add_chunk(st, CHUNK_TYPE_DONT_CARE,
                                HoleLength(st.priv, st.prev_end, st.priv.memmap[i])))
    ELSE build_region(st, i)

\* The for loop from w on: it ends when the body left it (next = 0) or
\* when i = nr_entries.  Entries lo..hi are visited by halves, the first
\* half evaluated before the second is entered (left is bound to its
\* value), so that the evaluation nests in the logarithm of the number of
\* entries.
RECURSIVE build_span(_, _, _)
build_span(w, lo, hi) ==
    IF w.next = 0 \/ lo > hi THEN w
    ELSE IF lo = hi
    THEN build_entry([priv |-> w.priv, len |-> w.len, prev_end |-> w.prev_end], lo)
    ELSE CHOOSE r \in {build_span(left, (lo + hi) \div 2 + 1, hi) :
                           left \in {build_span(w, lo, (lo + hi) \div 2)}} : TRUE

\* The whole loop, i = 0 .. nr_entries - 1.
build_loop(st) ==
    CHOOSE r \in {build_span(w, 1, Len(st.priv.memmap)) : w \in {WalkAt(st, 1)}} : TRUE

BuildResult(ret, p, len, bad) ==
    [ret |-> ret, priv |-> p, cur |-> Zero, len |-> len, bad_free |-> bad]

\* lines 182-202, after the walk ended in w
build_finish(w) ==
    IF w.err
    THEN BuildResult(IF EFI_ERROR(w.ret) THEN w.ret ELSE EFI_INVALID_PARAMETER,
                     w.priv, w.len, TRUE)
    ELSE IF w.priv.end # Zero /\ ~w.broke
    THEN BuildResult(EFI_INVALID_PARAMETER, w.priv, w.len, FALSE)
    ELSE IF w.len = Zero
    THEN BuildResult(EFI_INVALID_PARAMETER, w.priv, w.len, FALSE)
    ELSE IF w.priv.end = Zero
    THEN BuildResult(EFI_SUCCESS, [w.priv EXCEPT !.end = w.prev_end], w.len, FALSE)
    ELSE BuildResult(EFI_SUCCESS, w.priv, w.len, FALSE)

\* Result: ret, priv, ctx cur and len, and bad_free: the err label ran
\* FreePool(priv->chunks) on the chunk array embedded in the static ram_priv,
\* which is no pool block: the firmware refuses the call with a status that
\* the caller does not read.
ram_build_chunks(priv) ==
    build_finish(build_loop([priv |-> priv, len |-> Zero, prev_end |-> Zero]))

\* What ram_open returns: ret, the context, the static region, and
\* bad_free: FreePool was called on an address that is no pool block.
\* halt: the call did not return.
RamOpenResult(ret, c, p) ==
    [ret |-> ret, cx |-> c, priv |-> p, bad_free |-> FALSE, halt |-> FALSE]

\* line 262 with a map of no descriptor: sort_memory_map does not return.
\* c and p are the context and the static region as ram_open had written
\* them when it made the call; what the stray loop overwrites is read by
\* no code, since none runs afterwards.
RamOpenStrayed(c, p) ==
    [ret |-> "none", cx |-> c, priv |-> p, bad_free |-> FALSE, halt |-> TRUE]

\* err: priv->is_in_used = FALSE
RamOpenErr(ret, c, p) ==
    RamOpenResult(IF EFI_ERROR(ret) THEN ret ELSE EFI_INVALID_PARAMETER,
                  c, [p EXCEPT !.is_in_used = FALSE])

\* lines 264-271, after ram_build_chunks returned b
ram_open_built(c, b) ==
    IF EFI_ERROR(b.ret)
    THEN [ret |-> b.ret,
          cx |-> [c EXCEPT !.cur = b.cur, !.len = b.len],
          priv |-> [b.priv EXCEPT !.is_in_used = FALSE],
          bad_free |-> b.bad_free,
          halt |-> FALSE]
    ELSE RamOpenResult(EFI_SUCCESS,
                       [c EXCEPT !.cur = b.cur,
                                 !.len = UAdd(b.len, U(SizeofSparseHeader))],
                       b.priv)

InitSparseHeader ==
    [magic |-> SPARSE_HEADER_MAGIC, major_version |-> 1, minor_version |-> 0,
     file_hdr_sz |-> SizeofSparseHeader, chunk_hdr_sz |-> SizeofChunkHeader,
     blk_sz |-> EFI_PAGE_SIZE, total_blks |-> Zero, total_chunks |-> 0]

\* lines 262-271, with sorted what sort_memory_map made of the map
ram_open_sorted(c, p, sorted) ==
    IF sorted.strayed THEN RamOpenStrayed(c, [p EXCEPT !.memmap = sorted.entries])
    ELSE ram_open_built(c, ram_build_chunks([p EXCEPT !.memmap = sorted.entries]))

\* lines 240-264, with the boundaries parsed into p
ram_open_window(c, p, gmm) ==
    IF UModPage(p.start) # 0 \/ UModPage(p.end) # 0
    THEN RamOpenErr(EFI_SUCCESS, c, p)
    ELSE IF EFI_ERROR(gmm.ret)
    THEN RamOpenErr(gmm.ret, c, [p EXCEPT !.sheader = InitSparseHeader])
    ELSE ram_open_sorted(c, [p EXCEPT !.sheader = InitSparseHeader],
                         sort_memory_map(gmm.map))

\* lines 226-238, with a0 and a1 what strtoul returned for argv[0] and argv[1]
ram_open_parsed(c, p, argc, a0, a1, gmm) ==
    IF argc > 0 /\ a0.endptr # << >>
    THEN RamOpenErr(EFI_SUCCESS, c, [p EXCEPT !.start = a0.value])
    ELSE IF argc = 2 /\ a1.endptr # << >>
    THEN RamOpenErr(EFI_SUCCESS, c, [p EXCEPT !.start = a0.value])
    ELSE ram_open_window(c,
             [p EXCEPT !.start = a0.value,
                       !.end = IF argc = 2 THEN UAdd(a0.value, a1.value) ELSE Zero],
             gmm)

NoArg == [value |-> Zero, endptr |-> << >>]

\* ram_open(ctx, argc, argv) on context record cx with the static region
\* priv0.  gmm is what BS->GetMemoryMap returns: [ret, map].
ram_open(cx, priv0, argv, gmm) ==
    IF Len(argv) > 2 THEN RamOpenResult(EFI_INVALID_PARAMETER, cx, priv0)
    ELSE IF priv0.is_in_used THEN RamOpenResult(EFI_UNSUPPORTED, cx, priv0)
    ELSE ram_open_parsed([cx EXCEPT !.private = RamPrivPtr],
                         [ZeroRamPriv EXCEPT !.is_in_used = TRUE],
                         Len(argv),
                         IF Len(argv) > 0 THEN strtoul(argv[1]) ELSE NoArg,
                         IF Len(argv) = 2 THEN strtoul(argv[2]) ELSE NoArg,
                         gmm)

\* line 302: chunk->chunk_sz * EFI_PAGE_SIZE, the product of a 32-bit field
\* and an int, which keeps its low 32 bits.
ChunkBytes(chunk) == Trunc32(UMulPage(chunk.chunk_sz))

\* What ram_read returns: ret, *len, the static region, and buf, which
\* names what *buf points to.
RamReadResult(ret, n, p, buf) == [ret |-> ret, len |-> n, priv |-> p, buf |-> buf]

\* lines 299-305: the next chunk is taken
ram_read_chunk(priv, chunk) ==
    RamReadResult(EFI_SUCCESS, SizeofChunkHeader,
        [priv EXCEPT !.cur_chunk = @ + 1,
                     !.cur_end = UAdd(priv.cur, ChunkBytes(chunk)),
                     !.cur = IF chunk.chunk_type # CHUNK_TYPE_RAW
                             THEN UAdd(priv.cur, ChunkBytes(chunk)) ELSE @],
        <<"chunk", priv.cur_chunk>>)

\* lines 309-313: a slice of the current memory region
ram_read_region(priv, len_in) ==
    RamReadResult(EFI_SUCCESS, MinOfWrappedSub(len_in, priv.cur_end, priv.cur),
        [priv EXCEPT !.cur = UAdd(@, U(MinOfWrappedSub(len_in, priv.cur_end, priv.cur)))],
        <<"ram", priv.cur>>)

\* ram_read taking the chunk (priv->cur_chunk++) before it tests *len
\* against the size of a chunk header.
ram_read_takes_chunk_first(cx, priv, len_in) ==
    IF cx.cur = Zero
    THEN IF len_in < SizeofSparseHeader
         THEN RamReadResult(EFI_INVALID_PARAMETER, len_in, priv, <<"none">>)
         ELSE RamReadResult(EFI_SUCCESS, SizeofSparseHeader,
                            [priv EXCEPT !.cur = priv.start, !.cur_end = priv.start],
                            <<"sheader">>)
    ELSE IF priv.cur = priv.cur_end
    THEN IF priv.cur_chunk = priv.chunk_nb
         THEN RamReadResult(EFI_INVALID_PARAMETER, len_in, priv, <<"none">>)
         ELSE IF len_in < SizeofChunkHeader
         THEN RamReadResult(EFI_INVALID_PARAMETER, len_in,
                            [priv EXCEPT !.cur_chunk = @ + 1], <<"none">>)
         ELSE ram_read_chunk(priv, priv.chunks[priv.cur_chunk + 1])
    ELSE ram_read_region(priv, len_in)

\* ram_read(ctx, buf, len) with *len = len_in.
ram_read(cx, priv, len_in) ==
    IF cx.cur = Zero
    THEN IF len_in < SizeofSparseHeader
         THEN RamReadResult(EFI_INVALID_PARAMETER, len_in, priv, <<"none">>)
         ELSE RamReadResult(EFI_SUCCESS, SizeofSparseHeader,
                            [priv EXCEPT !.cur = priv.start, !.cur_end = priv.start],
                            <<"sheader">>)
    ELSE IF priv.cur = priv.cur_end
    THEN IF priv.cur_chunk = priv.chunk_nb \/ len_in < SizeofChunkHeader
         THEN RamReadResult(EFI_INVALID_PARAMETER, len_in, priv, <<"none">>)
         ELSE ram_read_chunk(priv, priv.chunks[priv.cur_chunk + 1])
    ELSE ram_read_region(priv, len_in)

\* ram_close: FreePool(priv->chunks) on the embedded array, then the flag.
ram_close(priv) == [priv EXCEPT !.is_in_used = FALSE]

(***************************************************************************)
(* Firmware and platform the readers call into                             *)
(***************************************************************************)
Str(s) == [null |-> FALSE, s |-> s]
NullStr == [null |-> TRUE, s |-> << >>]

\* The GPT of the user logical unit: a 4 KiB partition and one larger than
\* the bounce buffer (24576 blocks of 512 bytes = 12 MiB).
GptPartitions ==
    << [label |-> <<"b", "o", "o", "t">>, starting_lba |-> 2048, ending_lba |-> 2055,
        BlockSize |-> 512],
       [label |-> <<"d", "a", "t", "a">>, starting_lba |-> 4096, ending_lba |-> 28671,
        BlockSize |-> 512] >>

\* gpt_get_partition_by_label: index of the partition, 0 when there is none.
gpt_get_partition_by_label(partname) ==
    IF \E i \in 1..Len(GptPartitions) : GptPartitions[i].label = partname
    THEN CHOOSE i \in 1..Len(GptPartitions) : GptPartitions[i].label = partname
    ELSE 0

\* ACPI tables by signature, with the length their header declares.
AcpiTables ==
    << [signature |-> <<"D", "S", "D", "T">>, length |-> 36],
       [signature |-> <<"F", "A", "C", "P">>, length |-> 5000] >>

get_acpi_table(sig) ==
    IF \E i \in 1..Len(AcpiTables) : AcpiTables[i].signature = sig
    THEN CHOOSE i \in 1..Len(AcpiTables) : AcpiTables[i].signature = sig
    ELSE 0

\* The variable store, in GetNextVariableName order.
EfiVariables ==
    << [name |-> <<"B", "o", "o", "t">>, guid |-> 1, size |-> 40],
       [name |-> <<"D", "u", "p">>, guid |-> 1, size |-> 4],
       [name |-> <<"D", "u", "p">>, guid |-> 2, size |-> 6],
       [name |-> <<"O", "n", "e">>, guid |-> 2, size |-> 1],
       [name |-> [i \in 1..(NameBufSize \div 2) |-> "n"], guid |-> 3, size |-> 2] >>

\* stra_to_guid: the vendor GUIDs whose text form parses; 0 for any other text.
GuidTexts == << <<"g", "1">>, <<"g", "2">>, <<"g", "3">> >>

stra_to_guid(text) ==
    IF \E g \in 1..Len(GuidTexts) : GuidTexts[g] = text
    THEN CHOOSE g \in 1..Len(GuidTexts) : GuidTexts[g] = text
    ELSE 0

\* FreePool(p) on the pool: a block in use is released; any other address
\* is refused without effect, with a status no caller reads.  bad: the
\* address was neither a block in use nor NULL.
FreePool(pl, p) ==
    IF p.k = "pool" /\ pl[p.id] THEN [pool |-> [pl EXCEPT ![p.id] = FALSE], bad |-> FALSE]
    ELSE IF p.k = "null" THEN [pool |-> pl, bad |-> FALSE]
    ELSE [pool |-> pl, bad |-> TRUE]

\* AllocatePool: any free block, or NULL (0) when the pool is exhausted.
AllocChoices(pl) ==
    IF \E b \in Blocks : ~pl[b] THEN {b \in Blocks : ~pl[b]} ELSE {0}

(***************************************************************************)
(* Partition reader                                                        *)
(***************************************************************************)
\* Effects of an adapter call: status, context, static RAM region, pool and
\* heap, and whether FreePool was called on an address that is no pool block.
Eff(ret, cx, priv, pl, hp) ==
    [ret |-> ret, cx |-> cx, priv |-> priv, pool |-> pl, heap |-> hp,
     bad_free |-> FALSE, halt |-> FALSE]

\* env.blk: what AllocatePool returns; env.str_ok: stra_to_str succeeded.
part_open(cx, priv, pl, hp, argv, env) ==
    LET argc == Len(argv) IN
    IF argc < 1 \/ argc > 3 THEN Eff(EFI_INVALID_PARAMETER, cx, priv, pl, hp)
    ELSE IF env.blk = 0
    THEN Eff(EFI_OUT_OF_RESOURCES, [cx EXCEPT !.private = NullPtr], priv, pl, hp)
    ELSE
    LET b == env.blk
        c1 == [cx EXCEPT !.private = PoolPtr(b)]
        pl1 == [pl EXCEPT ![b] = TRUE]
        hp1 == [hp EXCEPT ![b].kind = "part"]
        \* err: FreePool(priv)
        Err(ret, c, h) == Eff(IF EFI_ERROR(ret) THEN ret ELSE EFI_INVALID_PARAMETER,
                              c, priv, FreePool(pl1, PoolPtr(b)).pool, h)
        gp == gpt_get_partition_by_label(argv[1])
    IN
    IF ~env.str_ok THEN Err(EFI_SUCCESS, c1, hp1)
    ELSE IF gp = 0 THEN Err(EFI_NOT_FOUND, c1, hp1)
    ELSE
    LET part == GptPartitions[gp]
        hp2 == [hp1 EXCEPT ![b].part = gp,
                           ![b].offset = part.starting_lba * part.BlockSize]
        length == U((part.ending_lba + 1 - part.starting_lba) * part.BlockSize)
        cur == IF argc > 1 THEN strtoul(argv[2]).value ELSE Zero
        len == IF argc = 3 THEN strtoul(argv[3]).value ELSE length
        c2 == [c1 EXCEPT !.cur = cur, !.len = length]
        c3 == [c1 EXCEPT !.cur = cur, !.len = len]
    IN
    IF argc > 1 /\ ULessEq(length, cur) THEN Err(EFI_SUCCESS, c2, hp2)
    ELSE IF argc = 3 /\ (len = Zero \/ ULess(length, len) \/ ULessEq(USub(length, len), cur))
    THEN Err(EFI_SUCCESS, c3, hp2)
    ELSE Eff(EFI_SUCCESS, c3, priv, pl1,
             [hp2 EXCEPT ![b].buf_cur = 0, ![b].buf_len = 0, ![b].need_more_data = TRUE])

\* part_read on the struct part_priv in block blk; io_ok: ReadDisk succeeded.
\* Result: ret, *len, the block.
part_read(cx, blk, len_in, io_ok) ==
    LET refill == [blk EXCEPT !.buf_len =
                      MinOfWrappedSub(PART_READER_BUF_SIZE, cx.len, cx.cur)]
        b1 == IF blk.need_more_data
              THEN [refill EXCEPT !.need_more_data = FALSE, !.buf_cur = 0]
              ELSE blk
        n == min(len_in, b1.buf_len - b1.buf_cur)
        b2 == [b1 EXCEPT !.buf_cur = @ + n]
    IN
    IF blk.need_more_data /\ ~io_ok
    THEN [ret |-> EFI_DEVICE_ERROR, len |-> len_in, blk |-> refill]
    ELSE [ret |-> EFI_SUCCESS, len |-> n,
          blk |-> IF b2.buf_cur = b2.buf_len
                  THEN [b2 EXCEPT !.need_more_data = TRUE] ELSE b2]

(***************************************************************************)
(* ACPI table reader and EFI variable reader                               *)
(***************************************************************************)
acpi_open(cx, priv, pl, hp, argv) ==
    LET argc == Len(argv)
        t == get_acpi_table(argv[1])
    IN
    IF argc # 1 THEN Eff(EFI_INVALID_PARAMETER, cx, priv, pl, hp)
    ELSE IF t = 0 THEN Eff(EFI_NOT_FOUND, cx, priv, pl, hp)
    ELSE Eff(EFI_SUCCESS,
             [cx EXCEPT !.private = TablePtr(t), !.cur = Zero,
                        !.len = U(AcpiTables[t].length)],
             priv, pl, hp)

\* StrSize: the bytes of a CHAR16 string with its terminator.
StrSize(name) == (Len(name) + 1) * 2

\* The GetNextVariableName loop from store index i on, at its k-th call,
\* with a name buffer of bufsize bytes.  fw.gnv_err: the number of the call
\* that fails with EFI_DEVICE_ERROR (0: none); fw.realloc_ok: ReallocatePool
\* succeeds.  After the last variable the call returns EFI_NOT_FOUND.
RECURSIVE efivar_find_loop(_, _, _, _, _, _, _)
efivar_find_loop(varname, i, k, found, found_guid, bufsize, fw) ==
    IF fw.gnv_err = k
    THEN [ret |-> EFI_DEVICE_ERROR, found |-> found, guid |-> found_guid]
    ELSE IF i > Len(EfiVariables)
    THEN [ret |-> EFI_SUCCESS, found |-> found, guid |-> found_guid]
    ELSE IF StrSize(EfiVariables[i].name) > bufsize
    THEN IF ~fw.realloc_ok
         THEN [ret |-> EFI_OUT_OF_RESOURCES, found |-> found, guid |-> found_guid]
         ELSE efivar_find_loop(varname, i, k + 1, found, found_guid,
                               StrSize(EfiVariables[i].name), fw)
    ELSE IF EfiVariables[i].name = varname
    THEN IF found
         THEN [ret |-> EFI_UNSUPPORTED, found |-> found, guid |-> found_guid]
         ELSE efivar_find_loop(varname, i + 1, k + 1, TRUE, EfiVariables[i].guid,
                               bufsize, fw)
    ELSE efivar_find_loop(varname, i + 1, k + 1, found, found_guid, bufsize, fw)

\* What efivar_find returns for the result r of its loop.
efivar_find_result(r) ==
    IF EFI_ERROR(r.ret) THEN [ret |-> r.ret, guid |-> 0]
    ELSE IF ~r.found THEN [ret |-> EFI_NOT_FOUND, guid |-> 0]
    ELSE [ret |-> EFI_SUCCESS, guid |-> r.guid]

\* fw.name_ok: AllocateZeroPool of the name buffer succeeded.
efivar_find(varname, fw) ==
    IF ~fw.name_ok THEN [ret |-> EFI_OUT_OF_RESOURCES, guid |-> 0]
    ELSE efivar_find_result(efivar_find_loop(varname, 1, 1, FALSE, 0, NameBufSize, fw))

\* get_efi_variable: index in the store of the variable (guid, name), or 0.
get_efi_variable(guid, varname) ==
    IF \E i \in 1..Len(EfiVariables) :
          EfiVariables[i].name = varname /\ EfiVariables[i].guid = guid
    THEN CHOOSE i \in 1..Len(EfiVariables) :
          EfiVariables[i].name = varname /\ EfiVariables[i].guid = guid
    ELSE 0

efivar_open(cx, priv, pl, hp, argv, env) ==
    LET argc == Len(argv)
        Fail(ret) == Eff(ret, cx, priv, pl, hp)
        g2 == IF argc = 2 THEN stra_to_guid(argv[2]) ELSE 0
        f == efivar_find(argv[1], env)
        guid == IF argc = 2 THEN g2 ELSE f.guid
        v == get_efi_variable(guid, argv[1])
    IN
    IF argc # 1 /\ argc # 2 THEN Fail(EFI_INVALID_PARAMETER)
    ELSE IF argc = 2 /\ g2 = 0 THEN Fail(EFI_INVALID_PARAMETER)
    ELSE IF ~env.str_ok THEN Fail(EFI_OUT_OF_RESOURCES)
    ELSE IF argc = 1 /\ EFI_ERROR(f.ret) THEN Fail(f.ret)
    ELSE IF v = 0 THEN Fail(EFI_NOT_FOUND)
    ELSE IF env.blk = 0 THEN Fail(EFI_OUT_OF_RESOURCES)
    ELSE Eff(EFI_SUCCESS,
             [cx EXCEPT !.private = PoolPtr(env.blk), !.cur = Zero,
                        !.len = U(EfiVariables[v].size)],
             priv,
             [pl EXCEPT ![env.blk] = TRUE],
             [hp EXCEPT ![env.blk].kind = "var", ![env.blk].size = EfiVariables[v].size])

(***************************************************************************)
(* Interface                                                               *)
(***************************************************************************)
ReaderNames ==
    [ram |-> <<"r", "a", "m">>, acpi |-> <<"a", "c", "p", "i">>,
     part |-> <<"p", "a", "r", "t">>, efivar |-> <<"e", "f", "i", "v", "a", "r">>]

\* READERS[]: the reader whose name is tok, "NULL" when there is none.
FindReader(tok) ==
    IF \E r \in DOMAIN ReaderNames : ReaderNames[r] = tok
    THEN CHOOSE r \in DOMAIN ReaderNames : ReaderNames[r] = tok
    ELSE "NULL"

\* The effects of ram_open, which touches neither pool nor heap.
RamEff(r, pl, hp) ==
    [ret |-> r.ret, cx |-> r.cx, priv |-> r.priv, pool |-> pl, heap |-> hp,
     bad_free |-> r.bad_free, halt |-> r.halt]

\* reader_open(ctx, args) on a non-NULL ctx; env: what the firmware returns.
reader_open(cx, priv, pl, hp, args, env) ==
    LET toks == strtok_all(args.s, << >>, << >>)
        reader == FindReader(toks[1])
        c1 == [cx EXCEPT !.reader = reader]
        argv == Tail(toks)
    IN
    IF args.null THEN Eff(EFI_INVALID_PARAMETER, cx, priv, pl, hp)
    ELSE IF toks = << >> THEN Eff(EFI_INVALID_PARAMETER, cx, priv, pl, hp)
    ELSE IF Len(toks) > MAX_ARGS THEN Eff(EFI_INVALID_PARAMETER, cx, priv, pl, hp)
    ELSE IF reader = "NULL" THEN Eff(EFI_UNSUPPORTED, cx, priv, pl, hp)
    ELSE IF reader = "ram" THEN RamEff(ram_open(c1, priv, argv, env.gmm), pl, hp)
    ELSE IF reader = "acpi" THEN acpi_open(c1, priv, pl, hp, argv)
    ELSE IF reader = "part" THEN part_open(c1, priv, pl, hp, argv, env)
    ELSE efivar_open(c1, priv, pl, hp, argv, env)

\* reader_read without the early return of lines 625-626: an exhausted
\* stream is handed to the reader's read with *len = 0.
reader_read_no_early_return(cx, priv, hp, len_in, io_ok) ==
    LET n0 == MinOfWrappedSub(len_in, cx.len, cx.cur)
        R(ret, n, c, p, h) == [ret |-> ret, len |-> n, cx |-> c, priv |-> p, heap |-> h,
                               buf |-> <<"none">>]
    IN
    IF len_in = 0 \/ cx.reader = "NULL" THEN R(EFI_INVALID_PARAMETER, len_in, cx, priv, hp)
    ELSE IF cx.reader = "ram"
    THEN LET r == ram_read(cx, priv, n0)
         IN  IF EFI_ERROR(r.ret) THEN R(r.ret, r.len, cx, r.priv, hp)
             ELSE [R(EFI_SUCCESS, r.len, [cx EXCEPT !.cur = UAdd(@, U(r.len))], r.priv, hp)
                      EXCEPT !.buf = r.buf]
    ELSE IF cx.reader = "part"
    THEN LET b == cx.private.id
             r == part_read(cx, hp[b], n0, io_ok)
             h == [hp EXCEPT ![b] = r.blk]
         IN  IF EFI_ERROR(r.ret) THEN R(r.ret, r.len, cx, priv, h)
             ELSE [R(EFI_SUCCESS, r.len, [cx EXCEPT !.cur = UAdd(@, U(r.len))], priv, h)
                      EXCEPT !.buf = <<"part", IF hp[b].need_more_data THEN 0
                                               ELSE hp[b].buf_cur>>]
    ELSE [R(EFI_SUCCESS, n0, [cx EXCEPT !.cur = UAdd(@, U(n0))], priv, hp)
             EXCEPT !.buf = <<"private", cx.cur>>]

\* reader_read(ctx, buf, len) on a non-NULL ctx with *len = len_in, for a
\* context whose private pointer names what its reader expects.
reader_read(cx, priv, hp, len_in, io_ok) ==
    LET n0 == MinOfWrappedSub(len_in, cx.len, cx.cur)
        R(ret, n, c, p, h) == [ret |-> ret, len |-> n, cx |-> c, priv |-> p, heap |-> h,
                               buf |-> <<"none">>]
    IN
    IF len_in = 0 \/ cx.reader = "NULL" THEN R(EFI_INVALID_PARAMETER, len_in, cx, priv, hp)
    ELSE IF n0 = 0 THEN R(EFI_SUCCESS, 0, cx, priv, hp)
    ELSE IF cx.reader = "ram"
    THEN LET r == ram_read(cx, priv, n0)
         IN  IF EFI_ERROR(r.ret) THEN R(r.ret, r.len, cx, r.priv, hp)
             ELSE [R(EFI_SUCCESS, r.len, [cx EXCEPT !.cur = UAdd(@, U(r.len))], r.priv, hp)
                      EXCEPT !.buf = r.buf]
    ELSE IF cx.reader = "part"
    THEN LET b == cx.private.id
             r == part_read(cx, hp[b], n0, io_ok)
             h == [hp EXCEPT ![b] = r.blk]
         IN  IF EFI_ERROR(r.ret) THEN R(r.ret, r.len, cx, priv, h)
             ELSE [R(EFI_SUCCESS, r.len, [cx EXCEPT !.cur = UAdd(@, U(r.len))], priv, h)
                      EXCEPT !.buf = <<"part", IF hp[b].need_more_data THEN 0
                                               ELSE hp[b].buf_cur>>]
    ELSE \* read_from_private: *buf = private + cur, *len untouched
         [R(EFI_SUCCESS, n0, [cx EXCEPT !.cur = UAdd(@, U(n0))], priv, hp)
             EXCEPT !.buf = <<"private", cx.cur>>]

\* reader_close(ctx) on a non-NULL ctx: the set of outcomes.  free_private
\* and ram_close call FreePool, which refuses an address that is no pool
\* block in use.  ram_close through a pointer that is not &ram_priv writes
\* its flag into whatever the pointer names: into the pool block, or through
\* a NULL or table pointer, a store that is lost or stops the firmware (halt).
reader_close(cx, priv, pl, hp) ==
    LET O(halt, p, l, h, bad, rel) ==
            [halt |-> halt, priv |-> p, pool |-> l, heap |-> h, bad_free |-> bad,
             released |-> rel]
        f == FreePool(pl, cx.private)
    IN
    IF cx.reader = "NULL" \/ cx.reader = "acpi"
    THEN {O(FALSE, priv, pl, hp, FALSE, FALSE)}
    ELSE IF cx.reader = "part" \/ cx.reader = "efivar"
    THEN {O(FALSE, priv, f.pool, hp, f.bad, f.pool # pl)}
    ELSE IF cx.private = RamPrivPtr
    THEN {O(FALSE, ram_close(priv), pl, hp, TRUE, FALSE)}
    ELSE IF cx.private.k = "pool"
    THEN {O(FALSE, priv, pl, [hp EXCEPT ![cx.private.id].kind = "clobbered"], TRUE, FALSE)}
    ELSE {O(FALSE, priv, pl, hp, TRUE, FALSE), O(TRUE, priv, pl, hp, TRUE, FALSE)}

\* The private pointer of cx names a live object its reader can use: the
\* static ram_priv for ram; for part a block that is allocated and holds a
\* struct part_priv.  A ram_close through a stale pointer has written only
\* byte 0 of the block (gparti.part, which part_read does not use), so a
\* clobbered block still serves.  The other readers do not dereference it.
PrivateValid(cx, pl, hp) ==
    IF cx.reader = "ram" THEN cx.private = RamPrivPtr
    ELSE IF cx.reader = "part"
    THEN /\ cx.private.k = "pool"
         /\ pl[cx.private.id]
         /\ hp[cx.private.id].kind \in {"part", "clobbered"}
    ELSE TRUE

(***************************************************************************)
(* Actions: one per call of the interface                                  *)
(***************************************************************************)
\* The last call of the interface: the function, the context, the arguments
\* (args, max_len) and what it returned (ret, n), whether it ran an invalid
\* FreePool and whether it released a block.  A call that stopped the
\* firmware returned nothing: ret is "none" and halted is set.  str_ok: the
\* stra_to_str of a reader_open found memory for its copy; buf: the
\* buffer a reader_read handed out (the sparse header, a chunk header by
\* index, physical memory by address, the bounce buffer or the private
\* object by offset).
Call(op, c, args, ret, n, max_len, bad, rel) ==
    [op |-> op, c |-> c, args |-> args, ret |-> ret, n |-> n, max_len |-> max_len,
     bad_free |-> bad, released |-> rel, str_ok |-> TRUE, buf |-> <<"none">>]

Init ==
    /\ ctx = [c \in Ctxs |-> ZeroCtx]
    /\ ram_priv = ZeroRamPriv
    /\ pool = [b \in Blocks |-> FALSE]
    /\ heap = [b \in Blocks |-> ZeroBlock]
    /\ halted = FALSE
    /\ last = Call("init", 0, NullStr, EFI_SUCCESS, 0, 0, FALSE, FALSE)
    /\ stream = [c \in Ctxs |-> "idle"]
    /\ nreads = [c \in Ctxs |-> 0]
    /\ nopens = 0

\* reader_open(&ctx[c], args) by a caller that holds no open stream in c.
\* A ram_open on a map of no descriptor does not return (e.halt): the
\* firmware stops inside sort_memory_map.
ReaderOpen(c, args, env) ==
    /\ ~halted
    /\ stream[c] # "open"
    /\ nopens < MaxOpens
    /\ nopens' = nopens + 1
    /\ \E e \in {reader_open(ctx[c], ram_priv, pool, heap, args, env)} :
           /\ ctx' = [ctx EXCEPT ![c] = e.cx]
           /\ ram_priv' = e.priv
           /\ pool' = e.pool
           /\ heap' = e.heap
           /\ last' = [Call("open", c, args, e.ret, 0, 0, e.bad_free, FALSE)
                        EXCEPT !.str_ok = env.str_ok]
           /\ stream' = [stream EXCEPT ![c] = IF e.halt THEN @
                                               ELSE IF EFI_ERROR(e.ret) THEN "failed"
                                               ELSE "open"]
           /\ nreads' = [nreads EXCEPT ![c] = 0]
           /\ halted' = e.halt

\* reader_open(NULL, args)
ReaderOpenNullCtx ==
    /\ ~halted
    /\ last' = Call("open", 0, NullStr, EFI_INVALID_PARAMETER, 0, 0, FALSE, FALSE)
    /\ UNCHANGED <<ctx, ram_priv, pool, heap, halted, stream, nreads, nopens>>

\* reader_read(&ctx[c], &buf, &len) with *len = max_len, by a caller that
\* reads from a context it has open or has never opened.
ReaderRead(c, max_len, io_ok) ==
    /\ ~halted
    /\ stream[c] = "open" \/ ctx[c].reader = "NULL"
    /\ nreads[c] < MaxReads
    /\ \/ \E r \in {reader_read(ctx[c], ram_priv, heap, max_len, io_ok)} :
              /\ ctx' = [ctx EXCEPT ![c] = r.cx]
              /\ ram_priv' = r.priv
              /\ heap' = r.heap
              /\ last' = [Call("read", c, NullStr, r.ret, r.len, max_len, FALSE, FALSE)
                             EXCEPT !.buf = r.buf]
              /\ nreads' = [nreads EXCEPT ![c] =
                               IF r.ret = EFI_SUCCESS /\ r.len > 0 THEN @ + 1 ELSE @]
              /\ UNCHANGED <<pool, halted, stream, nopens>>
       \* part_read through a block that was released, or released and
       \* handed out again: where the memory still holds the fields the
       \* call runs as above, where the firmware has overwritten the
       \* released block it stops in ReadDisk.
       \/ /\ ~PrivateValid(ctx[c], pool, heap)
          /\ max_len # 0
          /\ MinOfWrappedSub(max_len, ctx[c].len, ctx[c].cur) # 0
          /\ halted' = TRUE
          /\ last' = Call("read", c, NullStr, "none", 0, max_len, FALSE, FALSE)
          /\ UNCHANGED <<ctx, ram_priv, pool, heap, stream, nreads, nopens>>

\* reader_close(&ctx[c])
ReaderClose(c) ==
    /\ ~halted
    /\ \E o \in reader_close(ctx[c], ram_priv, pool, heap) :
          /\ ram_priv' = o.priv
          /\ pool' = o.pool
          /\ heap' = o.heap
          /\ halted' = o.halt
          /\ last' = Call("close", c, NullStr, IF o.halt THEN "none" ELSE EFI_SUCCESS,
                          0, 0, o.bad_free, o.released)
          /\ stream' = [stream EXCEPT ![c] = IF @ = "open" /\ ~o.halt THEN "closed" ELSE @]
          /\ UNCHANGED <<ctx, nreads, nopens>>

(***************************************************************************)
(* Inputs                                                                  *)
(***************************************************************************)
\* A descriptor of pages pages from page number page on; PhysicalStart and
\* NumberOfPages are UINT64.
Conv(page, pages) ==
    [PhysicalStart |-> UMulPage(U(page)), NumberOfPages |-> U(pages),
     Type |-> EfiConventionalMemory]
Resv(page, pages) ==
    [PhysicalStart |-> UMulPage(U(page)), NumberOfPages |-> U(pages),
     Type |-> EfiReservedMemoryType]

\* Every descriptor within the bounds, and every map of one or two of them
\* in either order (so unsorted and overlapping maps are included).
Descriptors ==
    {Conv(p, n) : p \in 0..MaxStartPage, n \in 1..MaxPages}
    \cup {Resv(p, n) : p \in 0..MaxStartPage, n \in 1..MaxPages}

GenMaps == {<<d>> : d \in Descriptors} \cup {<<d, e>> : d \in Descriptors, e \in Descriptors}

\* Maps of three descriptors: conventional / reserved / conventional as the
\* firmware may order them, two regions around a hole, and an overlap.
WideMaps ==
    { <<Conv(0, 2), Resv(2, 2), Conv(4, 2)>>,
      <<Conv(4, 2), Conv(0, 2), Resv(2, 2)>>,
      <<Conv(1, 1), Conv(3, 1), Resv(5, 1)>>,
      <<Conv(0, 2), Conv(1, 2), Conv(4, 1)>> }

\* A map of n one-page conventional descriptors at the odd pages, each
\* preceded by a one-page hole: its plan needs 2 * n chunks.
HoleyMap(n) == [i \in 1..n |-> Conv(2 * i - 1, 1)]

\* The largest such map whose plan fits the chunk array, and the smallest
\* whose plan does not; both fit the memmap buffer of ram_priv.
FullMaps ==
    { HoleyMap(MAX_MEMORY_REGION_NB \div 2), HoleyMap(MAX_MEMORY_REGION_NB \div 2 + 1) }

\* The pages of 4 GiB, and maps with a conventional descriptor of 4 GiB (and
\* of one page more), alone and followed by a reserved page.
PagesOf4GiB == (Limb \div EFI_PAGE_SIZE) * Limb
BigMaps ==
    { <<Conv(0, PagesOf4GiB)>>,
      <<Conv(0, PagesOf4GiB), Resv(PagesOf4GiB, 1)>>,
      <<Conv(0, PagesOf4GiB + 1), Resv(PagesOf4GiB + 1, 1)>> }

\* The map of a GetMemoryMap that succeeds with a memmap_sz of 0: no
\* descriptor.
EmptyMap == << >>

GetMemoryMapOk(maps) == {[ret |-> EFI_SUCCESS, map |-> m] : m \in maps}
GetMemoryMapFails == [ret |-> "EFI_BUFFER_TOO_SMALL", map |-> << >>]

PageTok(p) == ToHex(p * EFI_PAGE_SIZE)
\* 0x800 is not page aligned; "1000z" has a trailing non-hex character.
BadToks == { <<"8", "0", "0">>, <<"1", "0", "0", "0", "z">> }

\* -1000: the length 2^64 - EFI_PAGE_SIZE, which brings start + length back
\* to one page below start.
MinusPageTok == <<"-">> \o PageTok(1)

RAM == ReaderNames.ram
\* Arguments as a caller may also write them: upper-case digits, a 0x or 0X
\* prefix, a "+" sign, leading white space of every kind, a "-" sign, and
\* a prefix without digits, and a number of 17 digits.
WrittenRamArgs ==
    { Join(<<RAM, <<"A", "0", "0", "0">> >>),
      Join(<<RAM, <<"0", "x", "1", "0", "0", "0">>, <<"0", "X", "2", "0", "0", "0">> >>),
      Join(<<RAM, <<" ", "+", "1", "0", "0", "0">>, <<"0", "x">> >>),
      Join(<<RAM, <<"\n", "1", "0", "0", "0">> >>),
      Join(<<RAM, <<"\r", VT, "\f", "\t", "1", "0", "0", "0">>, MinusPageTok>>),
      Join(<<RAM, <<"-">> >>),
      Join(<<RAM, <<"1">> \o [i \in 1..16 |-> "0"]>>) }
\* ram, ram:<start>, ram:<start>:<length>, and one call with three arguments
RamArgs(toks) ==
    {RAM} \cup {Join(<<RAM, a>>) : a \in toks}
    \cup {Join(<<RAM, a, b>>) : a \in toks, b \in toks}
    \cup {Join(<<RAM, PageTok(0), PageTok(1), PageTok(1)>>)}

NoEnv ==
    [gmm |-> GetMemoryMapFails, blk |-> 0, str_ok |-> TRUE, name_ok |-> TRUE,
     gnv_err |-> 0, realloc_ok |-> TRUE]

\* The calls of GetNextVariableName that may fail: none, the first, and the
\* one that would return the second variable of a name.
GnvErrs == {0, 1, 3}

\* The firmware's answers to one reader_open, with at most one failure.
Firmware ==
    { [NoEnv EXCEPT !.str_ok = s, !.name_ok = n, !.gnv_err = g, !.realloc_ok = r] :
        s \in BOOLEAN, n \in BOOLEAN, g \in GnvErrs, r \in BOOLEAN }
SingleFaults ==
    { fw \in Firmware :
        Cardinality({f \in {"s", "n", "g", "r"} :
                        \/ f = "s" /\ ~fw.str_ok
                        \/ f = "n" /\ ~fw.name_ok
                        \/ f = "g" /\ fw.gnv_err # 0
                        \/ f = "r" /\ ~fw.realloc_ok}) <= 1 }

\* reader_open of the ram reader; the firmware returns one of the maps gmms.
OpenRam(C, args, gmms) ==
    \E c \in C, a \in args, g \in gmms :
        ReaderOpen(c, Str(a), [NoEnv EXCEPT !.gmm = g])

\* reader_open of a reader that allocates (part, efivar)
OpenPool(C, args) ==
    \E c \in C, a \in args, b \in AllocChoices(pool), fw \in SingleFaults :
        ReaderOpen(c, Str(a), [fw EXCEPT !.blk = b])

\* reader_open of the acpi reader, or with arguments the dispatcher rejects
OpenOther(C, args) ==
    \E c \in C, a \in args : ReaderOpen(c, a, NoEnv)

Read(C, lens) ==
    \E c \in C, l \in lens, io_ok \in BOOLEAN : ReaderRead(c, l, io_ok)

Close(C) == \E c \in C : ReaderClose(c)

PART == ReaderNames.part
EFIVAR == ReaderNames.efivar
ACPI == ReaderNames.acpi
BOOT == GptPartitions[1].label
DATA == GptPartitions[2].label

PartArgs ==
    { PART, Join(<<PART, BOOT>>), Join(<<PART, <<"n", "o">> >>),
      Join(<<PART, BOOT, ToHex(2048)>>), Join(<<PART, BOOT, ToHex(4096)>>),
      Join(<<PART, BOOT, ToHex(1024), ToHex(512)>>),
      Join(<<PART, BOOT, ToHex(2048), ToHex(1024)>>),
      Join(<<PART, BOOT, ToHex(1024), ToHex(3072)>>),
      Join(<<PART, BOOT, ToHex(0), ToHex(0)>>),
      Join(<<PART, BOOT, ToHex(0), ToHex(8192)>>),
      Join(<<PART, BOOT, ToHex(0), ToHex(4096)>>),
      Join(<<PART, BOOT, <<"\n", "0", "X">> \o ToHex(1024), ToHex(512)>>),
      Join(<<PART, BOOT, <<"-", "1">> >>),
      Join(<<PART, BOOT, ToHex(0), MinusPageTok>>),
      Join(<<PART, DATA>>) }

EfivarArgs ==
    { EFIVAR, Join(<<EFIVAR, EfiVariables[1].name>>), Join(<<EFIVAR, EfiVariables[2].name>>),
      Join(<<EFIVAR, <<"n", "o">> >>),
      Join(<<EFIVAR, EfiVariables[2].name, GuidTexts[2]>>),
      Join(<<EFIVAR, EfiVariables[4].name, GuidTexts[1]>>),
      Join(<<EFIVAR, EfiVariables[1].name, <<"z">> >>),
      Join(<<EFIVAR, EfiVariables[5].name>>) }

OtherArgs ==
    { NullStr, Str(<< >>), Str(<<":", ":">>), Str(<<"r", "a">>),
      Str(Join(<<ACPI, AcpiTables[1].signature>>)),
      Str(Join(<<ACPI, AcpiTables[2].signature>>)),
      Str(Join(<<ACPI, <<"X">> >>)),
      Str(Join(<<ACPI, AcpiTables[1].signature, <<"1">> >>)),
      Str(Join([i \in 1..(MAX_ARGS + 1) |-> ACPI])) }

ShortLens == {0, SizeofChunkHeader - 1, SizeofChunkHeader, SizeofSparseHeader - 1,
              SizeofSparseHeader}
LongLens == {EFI_PAGE_SIZE, PART_READER_BUF_SIZE + EFI_PAGE_SIZE}

(***************************************************************************)
(* Specifications                                                          *)
(***************************************************************************)
\* Several contexts opened, read and closed in any order, so that a context
\* is reused, closed twice, and closed while another one streams.
LifeRamArgs ==
    { RAM, Join(<<RAM, PageTok(0), PageTok(2)>>),
      Join(<<RAM, PageTok(0), PageTok(1), PageTok(1)>>) }
LifeMaps == { <<Conv(2, 1), Conv(0, 2)>> }
LifeOtherArgs ==
    { NullStr, Str(<<"r", "a">>), Str(Join(<<ACPI, AcpiTables[1].signature>>)) }

Next ==
    \/ OpenRam(Ctxs, LifeRamArgs, GetMemoryMapOk(LifeMaps \cup {EmptyMap}) \cup {GetMemoryMapFails})
    \/ OpenPool(Ctxs, {Join(<<PART, BOOT>>), Join(<<PART, <<"n", "o">> >>),
                       Join(<<EFIVAR, EfiVariables[4].name>>)})
    \/ OpenOther(Ctxs, LifeOtherArgs)
    \/ ReaderOpenNullCtx
    \/ Read(Ctxs, {PART_READER_BUF_SIZE + EFI_PAGE_SIZE})
    \/ Close(Ctxs)

Spec == Init /\ [][Next]_vars

\* One context opened once on the ram reader, over every generated map and
\* window, then read and closed.
RamToks == {PageTok(p) : p \in 0..MaxArgPage} \cup BadToks \cup {MinusPageTok}

NextRam ==
    \/ /\ stream[1] = "idle"
       /\ \/ OpenRam({1}, {RAM, Join(<<RAM, PageTok(1)>>)}, GetMemoryMapOk(BigMaps))
          \/ OpenRam({1}, RamArgs(RamToks), GetMemoryMapOk(GenMaps \cup WideMaps \cup {EmptyMap}))
          \/ OpenRam({1}, {RAM} \cup WrittenRamArgs, GetMemoryMapOk(FullMaps))
    \/ Read({1}, LongLens)
    \/ Close({1})

SpecRam == Init /\ [][NextRam]_vars

\* One context opened once on any reader, read with every buffer size.
NextStream ==
    \/ /\ stream[1] = "idle"
       /\ \/ OpenRam({1}, RamArgs({PageTok(0), PageTok(1), PageTok(3)})
                          \cup {Join(<<RAM, PageTok(5), MinusPageTok>>)},
                     GetMemoryMapOk(WideMaps \cup {EmptyMap}))
          \/ OpenRam({1}, {RAM}, GetMemoryMapOk(BigMaps))
          \/ OpenPool({1}, PartArgs \cup EfivarArgs)
          \/ OpenOther({1}, OtherArgs)
    \/ Read({1}, ShortLens \cup LongLens)
    \/ Close({1})

SpecStream == Init /\ [][NextStream]_vars

(***************************************************************************)
(* Properties                                                              *)
(***************************************************************************)
\* What the last call was given and what it did.
LastToks == strtok_all(last.args.s, << >>, << >>)
LastWasOpen == last.op = "open" /\ last.c \in Ctxs /\ ~halted
LastOpenedRam ==
    /\ LastWasOpen
    /\ last.ret = EFI_SUCCESS
    /\ ctx[last.c].reader = "ram"

\* The window the caller asked for: start, and start + length, or the end
\* of the last descriptor of the map when no length was given.
WinStart == IF Len(LastToks) >= 2 THEN strtoul(LastToks[2]).value ELSE Zero
LastDescriptorEnd(map) ==
    LET top == CHOOSE d \in {map[i] : i \in DOMAIN map} :
                   \A i \in DOMAIN map : /\ ULessEq(map[i].PhysicalStart, d.PhysicalStart)
                                         /\ map[i].PhysicalStart = d.PhysicalStart
                                                => ULessEq(EntryEnd(map[i]), EntryEnd(d))
    IN  EntryEnd(top)
WinEnd ==
    IF Len(LastToks) >= 3 THEN UAdd(WinStart, strtoul(LastToks[3]).value)
    ELSE LastDescriptorEnd(ram_priv.memmap)

\* The 64-bit number is below 2^63, the 32-bit field below 2^31: the
\* numbers a start or a length written with a "-" sign, and the sizes
\* computed from them, are not.
Plain(x) == x[1] < HalfLimb
Plain32(x) == x[3] < HalfLimb

\* The window's start and length are below 2^63: WinEnd is start + length.
WinPlain ==
    /\ Plain(WinStart)
    /\ Len(LastToks) >= 3 => Plain(strtoul(LastToks[3]).value)

\* n <= a - b for the integer n and the numbers a, b.
LeqDiff(n, a, b) == ULessEq(b, a) /\ ULessEq(U(n), USub(a, b))

\* The pages of chunks lo..hi, summed by halves.
RECURSIVE SumBlocksIn(_, _, _)
SumBlocksIn(chunks, lo, hi) ==
    IF lo > hi THEN Zero
    ELSE IF lo = hi THEN chunks[lo].chunk_sz
    ELSE UAdd(SumBlocksIn(chunks, lo, (lo + hi) \div 2),
              SumBlocksIn(chunks, (lo + hi) \div 2 + 1, hi))

\* The pages of the first n chunks.
SumBlocks(chunks, n) == SumBlocksIn(chunks, 1, n)

\* The total_sz of chunks lo..hi, summed by halves.
RECURSIVE SumTotalSzIn(_, _, _)
SumTotalSzIn(chunks, lo, hi) ==
    IF lo > hi THEN Zero
    ELSE IF lo = hi THEN chunks[lo].total_sz
    ELSE UAdd(SumTotalSzIn(chunks, lo, (lo + hi) \div 2),
              SumTotalSzIn(chunks, (lo + hi) \div 2 + 1, hi))

\* The total_sz of the first n chunks.
SumTotalSz(chunks, n) == SumTotalSzIn(chunks, 1, n)

\* The bytes by which ram_read moves its cursor over chunks lo..hi (line
\* 302), summed by halves.
RECURSIVE SumChunkBytesIn(_, _, _)
SumChunkBytesIn(chunks, lo, hi) ==
    IF lo > hi THEN Zero
    ELSE IF lo = hi THEN ChunkBytes(chunks[lo])
    ELSE UAdd(SumChunkBytesIn(chunks, lo, (lo + hi) \div 2),
              SumChunkBytesIn(chunks, (lo + hi) \div 2 + 1, hi))

\* The range ram_read streams for chunk k: from start plus the bytes of
\* the chunks before it, for the bytes of chunk k.
ChunkLo(k) == UAdd(ram_priv.start, SumChunkBytesIn(ram_priv.chunks, 1, k - 1))
ChunkHi(k) == UAdd(ChunkLo(k), ChunkBytes(ram_priv.chunks[k]))

\* No chunk_sz of the plan has its top bit set, as the low 32 bits of a
\* size that wrapped have.
PlanPlain == \A k \in 1..Len(ram_priv.chunks) : Plain32(ram_priv.chunks[k].chunk_sz)

\* C1: after a successful ram_open the pages of all planned chunks add up
\* to the window: sum(chunk_sz) * EFI_PAGE_SIZE = end - start.
C1_ChunksCoverWindow ==
    LastOpenedRam =>
        /\ PlanPlain
        /\ WinPlain
        /\ UMulPage(SumBlocks(ram_priv.chunks, Len(ram_priv.chunks)))
               = USub(WinEnd, WinStart)

\* C2: after a successful ram_open the range streamed for every RAW chunk
\* lies inside one conventional descriptor of the map and inside the window.
C2_RawInsideConventional ==
    LastOpenedRam =>
        \A k \in 1..Len(ram_priv.chunks) :
            ram_priv.chunks[k].chunk_type = CHUNK_TYPE_RAW =>
                /\ Plain32(ram_priv.chunks[k].chunk_sz)
                /\ \E i \in DOMAIN ram_priv.memmap :
                       /\ ram_priv.memmap[i].Type = EfiConventionalMemory
                       /\ ULessEq(ram_priv.memmap[i].PhysicalStart, ChunkLo(k))
                       /\ ULessEq(ChunkHi(k), EntryEnd(ram_priv.memmap[i]))
                /\ ULessEq(WinStart, ChunkLo(k))
                /\ WinPlain => ULessEq(ChunkHi(k), WinEnd)

\* C3: while a ram stream is open, ctx.len is the size of the sparse header
\* plus the total_sz of every planned chunk, and a chunk's total_sz is one
\* chunk header plus, for a RAW chunk, chunk_sz pages.
C3_LenIsHeaderPlusChunks ==
    \A c \in Ctxs :
        (stream[c] = "open" /\ ctx[c].reader = "ram" /\ ctx[c].private = RamPrivPtr) =>
            /\ ctx[c].len = UAdd(U(SizeofSparseHeader),
                                 SumTotalSz(ram_priv.chunks, Len(ram_priv.chunks)))
            /\ Len(ram_priv.chunks) = ram_priv.chunk_nb
            /\ \A k \in 1..Len(ram_priv.chunks) :
                   ram_priv.chunks[k].total_sz =
                       UAdd(U(SizeofChunkHeader),
                            IF ram_priv.chunks[k].chunk_type = CHUNK_TYPE_RAW
                            THEN UMulPage(ram_priv.chunks[k].chunk_sz) ELSE Zero)

\* The step is a reader_open of the ram reader on context c.
RamOpenStep(c) ==
    /\ last'.op = "open"
    /\ last'.c = c
    /\ ~last'.args.null
    /\ strtok_all(last'.args.s, << >>, << >>) # << >>
    /\ Len(strtok_all(last'.args.s, << >>, << >>)) <= MAX_ARGS
    /\ strtok_all(last'.args.s, << >>, << >>)[1] = RAM

\* C4: a ram_open issued while another context holds an open ram stream
\* returns EFI_UNSUPPORTED and leaves the static ram_priv as it was.
C4_SecondRamOpenRefused ==
    [][\A c \in Ctxs :
         (/\ RamOpenStep(c)
          /\ \E d \in Ctxs \ {c} : stream[d] = "open" /\ ctx[d].reader = "ram")
         => (last'.ret = EFI_UNSUPPORTED /\ ram_priv' = ram_priv)]_vars

\* C5: an open stream has 0 <= cur <= len; while it stays open len does not
\* change and cur does not decrease.
C5_CursorWithinLength ==
    /\ [](\A c \in Ctxs :
             stream[c] = "open"
                 => (ULessEq(Zero, ctx[c].cur) /\ ULessEq(ctx[c].cur, ctx[c].len)))
    /\ [][\A c \in Ctxs :
            (stream[c] = "open" /\ stream'[c] = "open")
            => (ctx'[c].len = ctx[c].len /\ ULessEq(ctx[c].cur, ctx'[c].cur))]_vars

\* The step is a reader_read on the open stream of context c that returned.
ReadStep(c) ==
    /\ last'.op = "read"
    /\ last'.c = c
    /\ stream[c] = "open"
    /\ ~halted'

\* C6: a successful reader_read with max_len >= 1 returns n with
\* n <= min(max_len, len - cur) and advances cur by n.
C6_ReadLengthBounded ==
    [][\A c \in Ctxs :
         (ReadStep(c) /\ last'.ret = EFI_SUCCESS /\ last'.max_len >= 1)
         => /\ last'.n <= last'.max_len
            /\ LeqDiff(last'.n, ctx[c].len, ctx[c].cur)
            /\ ctx'[c].cur = UAdd(ctx[c].cur, U(last'.n))]_vars

\* What C7 says of a reader_read on context c offered at least lo bytes: a
\* successful one returns 0 bytes exactly when cur = len, and on cur = len
\* it succeeds with 0 bytes and changes nothing.
ReadAtExhaustion(c, lo) ==
    (ReadStep(c) /\ last'.max_len >= lo)
    => /\ last'.ret = EFI_SUCCESS => (last'.n = 0 <=> ctx[c].cur = ctx[c].len)
       /\ ctx[c].cur = ctx[c].len
              => /\ last'.ret = EFI_SUCCESS
                 /\ last'.n = 0
                 /\ UNCHANGED <<ctx, ram_priv, pool, heap, halted, stream>>

\* C7 as stated: for every reader_read, whatever buffer size is offered.
C7_ReadAfterExhaustion ==
    [][\A c \in Ctxs : ReadAtExhaustion(c, 0)]_vars

\* A reader_read on context c that offers no byte is refused.
EmptyReadRefused(c) ==
    (ReadStep(c) /\ last'.max_len = 0) => last'.ret = EFI_INVALID_PARAMETER

\* C7, for a reader_read that offers at least one byte: it returns 0 bytes
\* exactly when cur = len, and then with success and without changing state;
\* a reader_read that offers no byte returns EFI_INVALID_PARAMETER, before
\* and after exhaustion.
C7_ReadAfterExhaustionNonEmpty ==
    [][\A c \in Ctxs : ReadAtExhaustion(c, 1) /\ EmptyReadRefused(c)]_vars

\* A read offering a page has just returned 0 bytes with success on a
\* stream that was read to its end.
C7_Witness ==
    /\ last.op = "read"
    /\ last.c \in Ctxs
    /\ last.ret = EFI_SUCCESS
    /\ last.n = 0
    /\ last.max_len >= 1
    /\ stream[last.c] = "open"
    /\ ctx[last.c].len # Zero
    /\ ctx[last.c].cur = ctx[last.c].len

\* C8: a reader_close on a context already closed changes no state, runs no
\* invalid FreePool and releases nothing.
C8_CloseIdempotent ==
    [][\A c \in Ctxs :
         (last'.op = "close" /\ last'.c = c /\ stream[c] = "closed")
         => /\ UNCHANGED <<ctx, ram_priv, pool, heap, halted>>
            /\ ~last'.bad_free
            /\ ~last'.released]_vars

\* C9: after a reader_open that returned an error the context holds no
\* reader and no pointer into the pool or to the static ram_priv.
C9_FailedOpenLeavesContextClean ==
    (LastWasOpen /\ EFI_ERROR(last.ret)) =>
        /\ ctx[last.c].reader = "NULL"
        /\ ctx[last.c].private.k \notin {"pool", "static"}

\* C10: a ram_open with a page-aligned start and a length of 0 returns
\* EFI_INVALID_PARAMETER.
C10_EmptyWindowRejected ==
    (/\ LastWasOpen
     /\ Len(LastToks) = 3
     /\ LastToks[1] = RAM
     /\ strtoul(LastToks[2]).endptr = << >>
     /\ strtoul(LastToks[3]).endptr = << >>
     /\ UModPage(strtoul(LastToks[2]).value) = 0
     /\ strtoul(LastToks[3]).value = Zero)
    => last.ret = EFI_INVALID_PARAMETER

\* The last call was a ram_open with at most two arguments, both hexadecimal
\* and page aligned, so that the memory map was fetched and walked.
LastRamOpenAligned ==
    /\ LastWasOpen
    /\ ~last.args.null
    /\ Len(LastToks) \in 1..3
    /\ LastToks[1] = RAM
    /\ Len(LastToks) >= 2 => strtoul(LastToks[2]).endptr = << >>
    /\ Len(LastToks) = 3 => strtoul(LastToks[3]).endptr = << >>
    /\ UModPage(WinStart) = 0
    /\ Len(LastToks) = 3 => UModPage(strtoul(LastToks[3]).value) = 0

\* The window lies inside the conventional descriptor i of the map.
WindowInside(i) ==
    /\ ram_priv.memmap[i].Type = EfiConventionalMemory
    /\ ULessEq(ram_priv.memmap[i].PhysicalStart, WinStart)
    /\ ULessEq(WinEnd, EntryEnd(ram_priv.memmap[i]))

\* C11: a ram_open whose (non-empty) window lies inside one conventional
\* descriptor succeeds with a plan of exactly one chunk, RAW, of
\* (end - start) / EFI_PAGE_SIZE pages.
C11_WindowInsideOneDescriptor ==
    (/\ LastRamOpenAligned
     /\ ram_priv.memmap # << >>
     /\ WinPlain
     /\ ULess(WinStart, WinEnd)
     /\ \E i \in DOMAIN ram_priv.memmap : WindowInside(i))
    => /\ last.ret = EFI_SUCCESS
       /\ Len(ram_priv.chunks) = 1
       /\ ram_priv.chunks[1].chunk_type = CHUNK_TYPE_RAW
       /\ UMulPage(ram_priv.chunks[1].chunk_sz) = USub(WinEnd, WinStart)

\* Two descriptors of the map ram_open fetched have overlapping ranges.
MapOverlaps ==
    \E i, j \in DOMAIN ram_priv.memmap :
        /\ i # j
        /\ ULess(ram_priv.memmap[i].PhysicalStart, EntryEnd(ram_priv.memmap[j]))
        /\ ULess(ram_priv.memmap[j].PhysicalStart, EntryEnd(ram_priv.memmap[i]))

\* C12: a ram_open on a memory map with two overlapping descriptors returns
\* EFI_INVALID_PARAMETER, whatever the window, and leaves the in-use flag
\* cleared.
C12_OverlapRejected ==
    (/\ last.op = "open"
     /\ last.c \in Ctxs
     /\ ~last.args.null
     /\ Len(LastToks) \in 1..3
     /\ LastToks[1] = RAM
     /\ Len(LastToks) >= 2 => strtoul(LastToks[2]).endptr = << >>
     /\ Len(LastToks) = 3 => strtoul(LastToks[3]).endptr = << >>
     /\ UModPage(WinStart) = 0
     /\ Len(LastToks) = 3 => UModPage(strtoul(LastToks[3]).value) = 0
     /\ MapOverlaps)
    => /\ ~halted
       /\ last.ret = EFI_INVALID_PARAMETER
       /\ ~ram_priv.is_in_used

\* The last call was a part_open with an offset and a length on an existing
\* partition, for which the firmware found the memory it needed.
LastPartOpenWithLength ==
    /\ LastWasOpen
    /\ ~last.args.null
    /\ Len(LastToks) = 4
    /\ LastToks[1] = PART
    /\ gpt_get_partition_by_label(LastToks[2]) # 0
    /\ last.str_ok
    /\ last.ret # EFI_OUT_OF_RESOURCES

\* length_total: the byte extent of the partition the last call named.
LastPartExtent ==
    LET part == GptPartitions[gpt_get_partition_by_label(LastToks[2])]
    IN  U((part.ending_lba + 1 - part.starting_lba) * part.BlockSize)

\* C13: part_open with an offset and a length succeeds exactly when
\* offset < length_total, length > 0 and offset + length <= length_total,
\* and returns EFI_INVALID_PARAMETER otherwise.
C13_PartBoundaryValidation ==
    LastPartOpenWithLength =>
        IF /\ Plain(strtoul(LastToks[3]).value)
           /\ Plain(strtoul(LastToks[4]).value)
           /\ ULess(strtoul(LastToks[3]).value, LastPartExtent)
           /\ strtoul(LastToks[4]).value # Zero
           /\ ULessEq(UAdd(strtoul(LastToks[3]).value, strtoul(LastToks[4]).value),
                      LastPartExtent)
        THEN last.ret = EFI_SUCCESS
        ELSE last.ret = EFI_INVALID_PARAMETER

\* The chunks a plan of the whole map needs: one per descriptor and one per
\* hole before a descriptor.
ChunksNeeded ==
    Len(ram_priv.memmap)
    + Cardinality({i \in DOMAIN ram_priv.memmap :
                      ULess(IF i = 1 THEN Zero ELSE EntryEnd(ram_priv.memmap[i - 1]),
                            ram_priv.memmap[i].PhysicalStart)})

\* C14: the plan never holds more than MAX_MEMORY_REGION_NB chunks, and a
\* ram_open of the whole map whose plan needs more returns
\* EFI_OUT_OF_RESOURCES.
C14_ChunkOverflowRejected ==
    /\ ram_priv.chunk_nb <= MAX_MEMORY_REGION_NB
    /\ Len(ram_priv.chunks) <= MAX_MEMORY_REGION_NB
    /\ (/\ last.op = "open"
        /\ last.c \in Ctxs
        /\ ~last.args.null
        /\ LastToks = <<RAM>>
        /\ ram_priv.memmap # << >>
        /\ ~MapOverlaps
        /\ ChunksNeeded > MAX_MEMORY_REGION_NB)
       => (~halted /\ last.ret = EFI_OUT_OF_RESOURCES)

\* A ram_open of the whole of a map whose plan needs more chunks than the
\* array holds has just returned EFI_OUT_OF_RESOURCES, with the array full.
C14_Witness ==
    /\ last.op = "open"
    /\ last.c \in Ctxs
    /\ LastToks = <<RAM>>
    /\ ~MapOverlaps
    /\ ChunksNeeded > MAX_MEMORY_REGION_NB
    /\ last.ret = EFI_OUT_OF_RESOURCES
    /\ ram_priv.chunk_nb = MAX_MEMORY_REGION_NB
    /\ Len(ram_priv.chunks) = MAX_MEMORY_REGION_NB

\* The sparse image the plan describes: the file header, then for chunk k
\* its header at stream offset ChunkOffset(k), followed when it is RAW by
\* chunk_sz pages of payload, from the address PayloadLo(k) on.
PayloadSize(chunk) ==
    IF chunk.chunk_type = CHUNK_TYPE_RAW THEN UMulPage(chunk.chunk_sz) ELSE Zero
RECURSIVE SumImageIn(_, _, _)
SumImageIn(chunks, lo, hi) ==
    IF lo > hi THEN Zero
    ELSE IF lo = hi THEN UAdd(U(SizeofChunkHeader), PayloadSize(chunks[lo]))
    ELSE UAdd(SumImageIn(chunks, lo, (lo + hi) \div 2),
              SumImageIn(chunks, (lo + hi) \div 2 + 1, hi))
ChunkOffset(k) == UAdd(U(SizeofSparseHeader), SumImageIn(ram_priv.chunks, 1, k - 1))
PayloadLo(k) == UAdd(ram_priv.start, UMulPage(SumBlocks(ram_priv.chunks, k - 1)))

\* Stream offset off lies in the header or the payload of chunk k.
InChunk(off, k) == ULessEq(ChunkOffset(k), off) /\ ULess(off, ChunkOffset(k + 1))
ChunkAt(off) ==
    IF \E k \in 1..Len(ram_priv.chunks) : InChunk(off, k)
    THEN CHOOSE k \in 1..Len(ram_priv.chunks) : InChunk(off, k)
    ELSE 0

\* The buffer that holds the byte at stream offset off, and the bytes from
\* off to the end of the file header, chunk header or payload it lies in.
ExpectedAt(off, k) ==
    IF k = 0 THEN [buf |-> <<"none">>, left |-> Zero]
    ELSE IF off = ChunkOffset(k)
    THEN [buf |-> <<"chunk", k - 1>>, left |-> U(SizeofChunkHeader)]
    ELSE [buf |-> <<"ram", UAdd(PayloadLo(k),
                               USub(off, UAdd(ChunkOffset(k), U(SizeofChunkHeader))))>>,
          left |-> USub(ChunkOffset(k + 1), off)]
Expected(off) ==
    IF off = Zero THEN [buf |-> <<"sheader">>, left |-> U(SizeofSparseHeader)]
    ELSE ExpectedAt(off, ChunkAt(off))

\* What C15 says of a successful read of n bytes into buf at stream offset
\* off, e being the image at off: the buffer is the image's, a header is
\* handed out whole and a payload slice ends within its chunk.
ReadMatches(buf, n, e) ==
    /\ buf = e.buf
    /\ ULessEq(U(n), e.left)
    /\ buf[1] # "ram" => U(n) = e.left

\* C15: successive successful ram reads hand out the file header, then for
\* each chunk in plan order its header and, for a RAW chunk only, its
\* chunk_sz pages as contiguous ascending slices of physical memory; a
\* header is handed out whole and no read runs over the end of a payload.
C15_RamStreamOrder ==
    [][\A c \in Ctxs :
         (/\ ReadStep(c)
          /\ ctx[c].reader = "ram"
          /\ ctx[c].private = RamPrivPtr
          /\ last'.ret = EFI_SUCCESS
          /\ last'.n > 0)
         => /\ ReadMatches(last'.buf, last'.n, Expected(ctx[c].cur))
            /\ ctx'[c].cur = UAdd(ctx[c].cur, U(last'.n))
            /\ ram_priv'.chunks = ram_priv.chunks
            /\ ram_priv'.start = ram_priv.start]_vars

\* Context c holds an open ram stream that has been read to its end.
RamExhausted(c) ==
    /\ stream[c] = "open"
    /\ ctx[c].reader = "ram"
    /\ ctx[c].private = RamPrivPtr
    /\ ctx[c].cur = ctx[c].len

\* C16: whenever a ram stream is exhausted (ctx.cur == ctx.len) its cursors
\* are terminal: cur_chunk is the number of planned chunks and cur is the
\* end of the window.
C16_ExhaustedIsTerminal ==
    \A c \in Ctxs :
        RamExhausted(c) =>
            /\ ram_priv.cur_chunk = ram_priv.chunk_nb
            /\ PlanPlain
            /\ ram_priv.cur = ram_priv.end

\* C17: after a successful ram_open with page-aligned start and end every
\* planned chunk has a positive chunk_sz, and the bytes streamed for it are
\* a whole number of pages.
C17_ChunksPositive ==
    (LastOpenedRam /\ LastRamOpenAligned) =>
        \A k \in 1..Len(ram_priv.chunks) :
            /\ ram_priv.chunks[k].chunk_sz # Zero
            /\ UModPage(USub(ChunkHi(k), ChunkLo(k))) = 0

\* Context c holds an open ram stream standing between two chunks: the file
\* header is out, the current chunk is streamed to its end and a chunk is left.
AtChunkBoundary(c) ==
    /\ stream[c] = "open"
    /\ ctx[c].reader = "ram"
    /\ ctx[c].private = RamPrivPtr
    /\ ctx[c].cur # Zero
    /\ ram_priv.cur = ram_priv.cur_end
    /\ ram_priv.cur_chunk < ram_priv.chunk_nb

\* C18: a reader_read that returns an error leaves ctx.cur, the ram cursors
\* (cur_chunk, cur, cur_end) and every partition buffer cursor and refill
\* flag as they were; a ram read at a chunk boundary that offers less than
\* a chunk header returns EFI_INVALID_PARAMETER.
C18_FailedReadKeepsCursors ==
    [][\A c \in Ctxs :
         (last'.op = "read" /\ last'.c = c /\ ~halted')
         => /\ EFI_ERROR(last'.ret) =>
                  /\ ctx'[c].cur = ctx[c].cur
                  /\ ram_priv'.cur_chunk = ram_priv.cur_chunk
                  /\ ram_priv'.cur = ram_priv.cur
                  /\ ram_priv'.cur_end = ram_priv.cur_end
                  /\ \A b \in Blocks :
                         /\ heap'[b].buf_cur = heap[b].buf_cur
                         /\ heap'[b].need_more_data = heap[b].need_more_data
            /\ (AtChunkBoundary(c) /\ last'.max_len < SizeofChunkHeader)
                  => last'.ret = EFI_INVALID_PARAMETER]_vars

\* A read offering 11 bytes has just been refused at a chunk boundary after
\* at least one chunk was streamed.
C18_Witness ==
    /\ last.op = "read"
    /\ last.c \in Ctxs
    /\ last.ret = EFI_INVALID_PARAMETER
    /\ last.max_len = SizeofChunkHeader - 1
    /\ AtChunkBoundary(last.c)
    /\ ram_priv.cur_chunk >= 1

\* Context c holds a ram stream that was opened and not closed since.
HoldsRamStream(c) ==
    /\ stream[c] = "open"
    /\ ctx[c].reader = "ram"
    /\ ctx[c].private = RamPrivPtr

\* C19: over any sequence of opens, reads and closes on several contexts
\* the in-use flag of the static ram_priv is set whenever some context
\* holds an open ram stream, and no ram_open succeeds while another
\* context holds one.
C19_InUseWhileOpen ==
    /\ []((\E c \in Ctxs : HoldsRamStream(c)) => ram_priv.is_in_used)
    /\ [][\A c \in Ctxs :
            (/\ RamOpenStep(c)
             /\ ~halted'
             /\ \E d \in Ctxs \ {c} : HoldsRamStream(d))
            => EFI_ERROR(last'.ret)]_vars

\* C20: on an open stream that is not exhausted, a reader_read that offers
\* at least the size of the sparse file header and whose ReadDisk succeeds
\* returns at least one byte and moves ctx.cur forward by it without
\* passing ctx.len; len - cur is then a natural number that every read
\* decreases, so the consumer's loop ends at cur == len.
C20_ReadsReachTheEnd ==
    [][\A c \in Ctxs :
         (/\ ReadStep(c)
          /\ last'.max_len >= SizeofSparseHeader
          /\ last'.ret # EFI_DEVICE_ERROR
          /\ ctx[c].cur # ctx[c].len)
         => /\ last'.ret = EFI_SUCCESS
            /\ last'.n >= 1
            /\ ctx'[c].cur = UAdd(ctx[c].cur, U(last'.n))
            /\ ULessEq(ctx'[c].cur, ctx[c].len)]_vars
====
